---- MODULE Spec2Model ----
(***************************************************************************)
(* A model of the DTS crawler of cli.py: crawl_collection (the recursive   *)
(* collection walker), extract_metadata, index_resource_passages,          *)
(* build_navigation_index, get_ancestors and extract_passage_text.         *)
(*                                                                         *)
(* The Python call stack is the variable stack; every action is one piece  *)
(* of a function between two calls to the outside (the DTS API through     *)
(* requests.get, Elasticsearch through app.elasticsearch.index).  What the *)
(* outside answers is chosen when it is asked: a response, or a failure    *)
(* (an exception raised by requests / raise_for_status / elasticsearch).   *)
(* The loop of get_ancestors has no bound of its own and is followed turn  *)
(* by turn.  Spec is the whole run of the index command; SpecPassages,     *)
(* SpecNavigation, SpecMetadata and SpecText are functions called on their *)
(* own, on every small input.                                              *)
(*                                                                         *)
(* Python values: None and an absent dictionary key are both the string    *)
(* None (dict.get gives None for either); text is a sequence of one-       *)
(* character strings, so that strip and join are computed, not assumed.    *)
(***************************************************************************)
EXTENDS Integers, Sequences, FiniteSets, TLC

VARIABLES
    status,            \* the "index" command: idle, running, done, error
    stack,             \* the call stack below index(): frames, the last is the running one
    visited,           \* the set crawl_collection threads through its recursive calls
    api,               \* what GET /collection has answered so far, by id
    log,               \* every request sent and every store write issued, in order
    collection_index,  \* the store's COLLECTION_INDEX: document id -> body
    document_index,    \* the store's DOCUMENT_INDEX: document id -> body
    call               \* a function called on its own: its arguments and its result

vars == <<status, stack, visited, api, log, collection_index, document_index, call>>

None == "None"

\* Python truthiness of a string-or-None value.
Falsy(v) == v = None \/ v = ""

(***************************************************************************)
(* Bounds of the model.                                                    *)
(***************************************************************************)
\* The number of member entries in the whole source graph (all member lists).
MaxLinks == 3

\* The number of nodes (elements and text nodes) of a document given to
\* extract_passage_text on its own.
MaxNodes == 5

\* The number of nodes of the document a resource answers with when
\* index_resource_passages is called on its own.
MaxDocumentNodes == 4

\* The number of items of a navigation member array whose items carry
\* "identifier" and "parent".
MaxNavItems == 4

\* The number of items of a navigation member array whose items carry their
\* identifier and parent under either field name.
MaxAltItems == 2

\* The number of elements of an array in a descriptive block.
MaxElements == 2

(***************************************************************************)
(* The source: the ids the DTS API knows, and what it may answer.          *)
(***************************************************************************)
\* app.config['TARGET_COLLECTION']
TARGET_COLLECTION == "R"

\* The title the API gives a collection when it gives one.
TitleOf(id) == CASE id = "R" -> "A" [] id = "c1" -> "B" [] id = "c2" -> "C" [] OTHER -> id

\* The member entries a /collection response may list: sub-collections (the
\* root among them: a cycle), the excluded collection, a resource, an entry
\* with no @id, an entry of another type.
MemberPool ==
    { [id |-> "R", type |-> "Collection"],
      [id |-> "c1", type |-> "Collection"],
      [id |-> "c2", type |-> "Collection"],
      [id |-> "cartulaires", type |-> "Collection"],
      [id |-> "x1", type |-> "Resource"],
      [id |-> None, type |-> "Resource"],
      [id |-> "c2", type |-> "Other"] }

SeqsUpTo(S, n) == UNION { [1..k -> S] : k \in 0..n }

\* The links already listed by the responses given so far.
LinksUsed == LET RECURSIVE Sum(_)
                 Sum(S) == IF S = {} THEN 0
                           ELSE LET x == CHOOSE y \in S : TRUE
                                IN Len(api[x].member) + Sum(S \ {x})
             IN Sum(DOMAIN api)

\* The JSON bodies GET /collection?id=<id> may answer with: the @id asked
\* for, a @type (None: an unknown shape with no @type), a title or none, and
\* a member list within the bound.
CollectionResponses(id) ==
    { [id |-> id, type |-> t, title |-> tt, description |-> None,
       dtsVersion |-> None, totalItems |-> None, totalChildren |-> None,
       totalParents |-> None, dublincore |-> <<>>, member |-> ms] :
        t \in {"Collection", "Resource", None},
        tt \in {None, TitleOf(id)},
        ms \in SeqsUpTo(MemberPool, MaxLinks - LinksUsed) }

(***************************************************************************)
(* JSON values of the descriptive and extension blocks: null, a string, a  *)
(* number, an object (of which only "label" and "@id" are read; None for a *)
(* key the object does not have), an array.                                *)
(***************************************************************************)
JNull == [t |-> "null"]

JStr(s) == [t |-> "str", s |-> s]

JNum(n) == [t |-> "num", n |-> n]

JObj(label, id) == [t |-> "obj", label |-> label, id |-> id]

JList(items) == [t |-> "list", items |-> items]

\* str(value), for the values the model gives it: a string, a number, None,
\* an object with no key.
PyStr(v) ==
    CASE v.t = "str" -> v.s
      [] v.t = "num" -> ToString(v.n)
      [] v.t = "null" -> "None"
      [] OTHER -> "{}"

\* ", ".join(parts)
RECURSIVE JoinComma(_)
JoinComma(parts) ==
    IF parts = <<>> THEN ""
    ELSE IF Len(parts) = 1 THEN parts[1]
    ELSE parts[1] \o ", " \o JoinComma(Tail(parts))

(***************************************************************************)
(* normalize_extension_key: a key is the sequence of its characters.       *)
(***************************************************************************)
normalize_extension_key(key) ==
    [i \in DOMAIN key |-> IF key[i] = ":" THEN "_" ELSE key[i]]

(***************************************************************************)
(* extract_metadata                                                        *)
(***************************************************************************)
\* line 218: value.get("label") or value.get("@id") or str(value)
FlattenObject(v) ==
    IF ~Falsy(v.label) THEN v.label
    ELSE IF ~Falsy(v.id) THEN v.id
    ELSE "{}"

\* line 222: str(v.get("label") if isinstance(v, dict) else v)
FlattenElement(v) ==
    IF v.t = "obj" THEN (IF v.label = None THEN "None" ELSE v.label) ELSE PyStr(v)

\* lines 216-226: the string a value of the block becomes.
FlattenValue(v) ==
    CASE v.t = "obj" -> FlattenObject(v)
      [] v.t = "list" ->
            JoinComma([i \in DOMAIN v.items |-> FlattenElement(v.items[i])])
      [] v.t = "str" -> v.s
      [] OTHER -> PyStr(v)

\* lines 209-229: the block is read under the key "dublincore"; a response
\* without that key gives the empty block.
extract_dublincore(response) ==
    LET dc == response.dublincore
    IN [key \in { k \in DOMAIN dc : dc[k].t # "null" } |-> FlattenValue(dc[key])]

extract_title(response) ==
    IF Falsy(response.title) THEN response.id ELSE response.title

extract_path(response, parent_path) ==
    IF Falsy(parent_path) THEN extract_title(response)
    ELSE parent_path \o " > " \o extract_title(response)

\* extract_metadata losing the parent's path ids.
extract_path_ids_own(response, parent_path_ids) == <<response.id>>

\* parent_path_ids is None or a list; <<>> stands for both (both are falsy).
extract_path_ids(response, parent_path_ids) ==
    IF parent_path_ids = <<>> THEN <<response.id>>
    ELSE parent_path_ids \o <<response.id>>

extract_metadata(response, parent_id, parent_path, parent_path_ids) ==
    [id |-> response.id,
     type |-> response.type,
     title |-> extract_title(response),
     description |-> response.description,
     parent_id |-> parent_id,
     path |-> extract_path(response, parent_path),
     path_ids |-> extract_path_ids(response, parent_path_ids),
     level |-> Len(extract_path_ids(response, parent_path_ids)) - 1,
     dtsVersion |-> response.dtsVersion,
     totalItems |-> response.totalItems,
     totalChildren |-> response.totalChildren,
     totalParents |-> response.totalParents,
     dublincore |-> extract_dublincore(response),
     members |-> <<>>]

(***************************************************************************)
(* A parsed XML document (etree.fromstring): its nodes in document order.  *)
(* Node n is [parent, kind, id, text]: parent is the index of its parent   *)
(* (0 for the root element), kind is "element" or "text", id is the value  *)
(* of xml:id (None when the element has none), text is the characters of a *)
(* text node.                                                              *)
(***************************************************************************)
Element(parent, id) == [parent |-> parent, kind |-> "element", id |-> id, text |-> <<>>]

TextNode(parent, text) == [parent |-> parent, kind |-> "text", id |-> None, text |-> text]

\* a is a proper ancestor of n
RECURSIVE IsAncestor(_, _, _)
IsAncestor(doc, a, n) ==
    /\ n # 0
    /\ doc[n].parent # 0
    /\ (doc[n].parent = a \/ IsAncestor(doc, a, doc[n].parent))

HasXmlId(doc, n) == doc[n].kind = "element" /\ doc[n].id # None

\* The indices in S, in increasing (document) order.
RECURSIVE InOrder(_)
InOrder(S) ==
    IF S = {} THEN <<>>
    ELSE LET m == CHOOSE x \in S : \A y \in S : x <= y
         IN <<m>> \o InOrder(S \ {m})

\* root.xpath("//*[@xml:id]")
ElementsWithId(doc) == InOrder({ n \in DOMAIN doc : HasXmlId(doc, n) })

(***************************************************************************)
(* extract_passage_text                                                    *)
(***************************************************************************)
IsSpace(c) == c \in {" ", "\n", "\t"}

\* str.strip()
RECURSIVE LStrip(_)
LStrip(t) == IF t # <<>> /\ IsSpace(Head(t)) THEN LStrip(Tail(t)) ELSE t

RECURSIVE RStrip(_)
RStrip(t) ==
    IF t # <<>> /\ IsSpace(t[Len(t)]) THEN RStrip(SubSeq(t, 1, Len(t) - 1)) ELSE t

Strip(t) == RStrip(LStrip(t))

\* " ".join(parts)
RECURSIVE Join(_)
Join(parts) ==
    IF parts = <<>> THEN <<>>
    ELSE IF Len(parts) = 1 THEN parts[1]
    ELSE parts[1] \o <<" ">> \o Join(Tail(parts))

\* element.xpath(".//*[@xml:id]")
DescendantsWithId(doc, el) ==
    { n \in DOMAIN doc : HasXmlId(doc, n) /\ IsAncestor(doc, el, n) }

\* element.xpath(".//text()")
AllText(doc, el) ==
    { t \in DOMAIN doc : doc[t].kind = "text" /\ IsAncestor(doc, el, t) }

\* element.xpath("text() | ./node()[not(@xml:id)]//text()"): the text nodes
\* that are children of the element, and every text node below a child
\* that has no xml:id attribute of its own.
OwnText(doc, el) ==
    { t \in DOMAIN doc :
        /\ doc[t].kind = "text"
        /\ \/ doc[t].parent = el
           \/ \E c \in DOMAIN doc :
                /\ doc[c].parent = el
                /\ ~HasXmlId(doc, c)
                /\ IsAncestor(doc, c, t) }

\* lines 30-39: the text nodes the function selects, in document order.
PassageTextNodes(doc, el) ==
    IF DescendantsWithId(doc, el) # {} THEN OwnText(doc, el) ELSE AllText(doc, el)

\* line 41
RECURSIVE StrippedParts(_, _)
StrippedParts(doc, nodes) ==
    IF nodes = <<>> THEN <<>>
    ELSE (IF Strip(doc[Head(nodes)].text) # <<>>
          THEN <<Strip(doc[Head(nodes)].text)>> ELSE <<>>)
         \o StrippedParts(doc, Tail(nodes))

extract_passage_text(doc, el) ==
    Join(StrippedParts(doc, InOrder(PassageTextNodes(doc, el))))

(***************************************************************************)
(* normalize_text                                                          *)
(***************************************************************************)
\* line 57: re.sub(r"\s+", " ", text)
RECURSIVE CollapseSpace(_)
CollapseSpace(t) ==
    IF t = <<>> THEN <<>>
    ELSE IF IsSpace(Head(t)) THEN <<" ">> \o CollapseSpace(LStrip(t))
    ELSE <<Head(t)>> \o CollapseSpace(Tail(t))

normalize_text(text) ==
    IF text = <<>> THEN <<>> ELSE Strip(CollapseSpace(text))

(***************************************************************************)
(* build_navigation_index and get_ancestors                                *)
(***************************************************************************)
\* One item of the member array of GET /navigation.
NavItem(identifier, id, citeType, level, parent, parentIdentifier) ==
    [identifier |-> identifier, id |-> id, citeType |-> citeType, level |-> level,
     parent |-> parent, parentIdentifier |-> parentIdentifier]

\* build_navigation_index reading the parent under "parent" only.
NavEntry_parentOnly(item) ==
    [id |-> item.identifier, citeType |-> item.citeType, level |-> item.level,
     parent |-> item.parent]

\* lines 127-137: the entry built from one item.
NavEntry(item) ==
    [id |-> item.identifier, citeType |-> item.citeType, level |-> item.level,
     parent |-> IF Falsy(item.parent) THEN item.parentIdentifier ELSE item.parent]

\* lines 124-138: items with no "identifier" are skipped; a later item
\* replaces an earlier one with the same identifier.
RECURSIVE NavIndexOf(_, _)
NavIndexOf(items, nav) ==
    IF items = <<>> THEN nav
    ELSE IF Falsy(Head(items).identifier) THEN NavIndexOf(Tail(items), nav)
    ELSE NavIndexOf(Tail(items),
                    [k \in DOMAIN nav \cup {Head(items).identifier} |->
                        IF k = Head(items).identifier THEN NavEntry(Head(items))
                        ELSE nav[k]])

build_navigation_index(items) == NavIndexOf(items, <<>>)

\* lines 108-112: what the chain keeps of an entry.
AncestorOf(entry) ==
    [id |-> entry.id, level |-> entry.level, citeType |-> entry.citeType]

\* lines 100-101: get_ancestors before its loop. current is held as the key
\* of the entry the walk stands on (an entry's "id" is its key, line 128),
\* None when passage_id has no entry.
AncestorsEnter(passage_id, nav_index) ==
    [passage_id |-> passage_id,
     current |-> IF passage_id \in DOMAIN nav_index THEN passage_id ELSE None,
     ancestors |-> <<>>]

\* lines 103-107: the loop takes one more turn: current has a parent, and
\* the parent has an entry.
AncestorsContinue(walk, nav_index) ==
    /\ walk.current # None
    /\ ~Falsy(nav_index[walk.current].parent)
    /\ nav_index[walk.current].parent \in DOMAIN nav_index

\* get_ancestors adding each parent at the end of the chain.
AncestorsIterate_appends(walk, nav_index) ==
    LET parent == nav_index[nav_index[walk.current].parent]
    IN [walk EXCEPT !.current = parent.id,
                    !.ancestors = Append(walk.ancestors, AncestorOf(parent))]

\* lines 104-113: one turn of the loop.
AncestorsIterate(walk, nav_index) ==
    LET parent == nav_index[nav_index[walk.current].parent]
    IN [walk EXCEPT !.current = parent.id,
                    !.ancestors = <<AncestorOf(parent)>> \o walk.ancestors]

\* The loop has no bound of its own. The model follows it one turn past the
\* number of entries: by then it has come back to an entry, and since the
\* turn depends on current alone it goes on for ever.
AncestorsFollowed(walk, nav_index) ==
    Len(walk.ancestors) <= Cardinality(DOMAIN nav_index)

(***************************************************************************)
(* Small inputs: every XML document of a few nodes, every navigation       *)
(* member array of a few items.                                            *)
(***************************************************************************)
\* The xml:id and the letter of the node at a position of the document: each
\* id is used once, each text node has a letter of its own.
IdAt(i) == <<"p1", "p2", "p3", "p4", "p5", "p6", "p7", "p8">>[i]

LetterAt(i) == <<"a", "b", "c", "d", "e", "f", "g", "h">>[i]

\* The elements still open after the last node of a document prefix: the
\* last node if it is an element, and its ancestors.
OpenElements(doc) ==
    { n \in DOMAIN doc :
        /\ doc[n].kind = "element"
        /\ (n = Len(doc) \/ IsAncestor(doc, n, Len(doc))) }

\* The nodes that may follow a document prefix in document order. A text
\* node never follows a text node of the same parent: a parser gives one
\* text node for adjacent characters. A text node is a letter, a blank, or
\* two letters with a line break and a blank between them.
NextNodes(doc) ==
    LET i == Len(doc) + 1
    IN UNION { { Element(p, None), Element(p, IdAt(i)) }
               \cup { TextNode(p, t) :
                        t \in IF doc[Len(doc)].kind = "text" /\ doc[Len(doc)].parent = p
                              THEN {}
                              ELSE { <<LetterAt(i)>>, <<" ">>,
                                     <<LetterAt(i), "\n", " ", LetterAt(i)>> } } :
               p \in OpenElements(doc) }

RECURSIVE DocumentsOfSize(_)
DocumentsOfSize(n) ==
    IF n = 1 THEN { <<Element(0, None)>>, <<Element(0, IdAt(1))>> }
    ELSE UNION { { Append(doc, node) : node \in NextNodes(doc) } :
                 doc \in DocumentsOfSize(n - 1) }

\* Every document of up to n nodes.
DocumentsUpTo(n) == UNION { DocumentsOfSize(k) : k \in 1..n }

\* The citeType of the navigation item at a position of the member array.
CiteAt(i) == <<"book", "chapter", "section", "line", "word", "char">>[i]

\* What an item of a member array of n items may name as its parent: nothing,
\* a passage the array does not list, or any passage of the array (itself
\* included).
ParentPool(n) == {None, "p0"} \cup { IdAt(j) : j \in 1..n }

\* The items that may stand at position i of a member array of n items. The
\* plain ones carry "identifier" and "parent"; the others carry the passage
\* identifier under "identifier", under "id" or not at all, and the parent
\* under "parent", under "parentIdentifier" or under both.
ItemsAt(i, n, alt) ==
    IF ~alt
    THEN { NavItem(IdAt(i), None, CiteAt(i), i, parent, None) :
             parent \in ParentPool(n) }
    ELSE { NavItem(name[1], name[2], CiteAt(i), i, up[1], up[2]) :
             name \in { <<IdAt(i), None>>, <<None, IdAt(i)>>, <<None, None>> },
             up \in { <<q, None>> : q \in ParentPool(n) }
                    \cup { <<None, q>> : q \in ParentPool(n) \ {None} }
                    \cup { <<IdAt(1), "p0">> } }

\* The member arrays whose first k items are chosen, for an array of n items.
RECURSIVE ItemLists(_, _, _)
ItemLists(k, n, alt) ==
    IF k = 0 THEN { <<>> }
    ELSE { Append(items, item) :
             items \in ItemLists(k - 1, n, alt), item \in ItemsAt(k, n, alt) }

\* Every member array of up to n plain items, or of up to a items with
\* alternative field names.
NavigationListsUpTo(n, a) ==
    UNION { ItemLists(k, k, FALSE) : k \in 0..n }
    \cup UNION { ItemLists(k, k, TRUE) : k \in 1..a }

\* The member arrays that list the first k passages, each the child of the
\* one before, for k up to n.
ChainListsUpTo(n) ==
    { [i \in 1..k |-> NavItem(IdAt(i), None, CiteAt(i), i,
                              IF i = 1 THEN None ELSE IdAt(i - 1), None)] :
        k \in 0..n }

(***************************************************************************)
(* What the API answers for a resource.                                    *)
(***************************************************************************)
\* GET /navigation?resource=<id>&down=-1: the member array.
\* Resource x1, the one the source graph links to, answers one of two
\* arrays (the second has a cycle of parents); any other resource answers
\* any chain.
NavigationResponses(resource_id) ==
    IF resource_id = "x1"
    THEN { << NavItem("p1", None, "chapter", 1, None, None),
              NavItem("p2", None, "section", 2, "p1", None),
              NavItem("p3", None, "section", 2, None, "p1"),
              NavItem(None, "p4", "section", 2, "p1", None) >>,
           << NavItem("p1", None, "chapter", 1, "p2", None),
              NavItem("p2", None, "section", 2, "p1", None) >> }
    ELSE ChainListsUpTo(MaxNavItems)

\* GET /document?resource=<id>, parsed: <TEI><div xml:id="p1">a <div
\* xml:id="p2">b</div></div><div xml:id="p3"> </div><div xml:id="p4">c</div></TEI>
\* Any other resource than x1 answers any small document.
DocumentResponses(resource_id) ==
    IF resource_id = "x1"
    THEN { << Element(0, None),
              Element(1, "p1"), TextNode(2, <<"a", " ">>),
              Element(2, "p2"), TextNode(4, <<"b">>),
              Element(1, "p3"), TextNode(6, <<" ">>),
              Element(1, "p4"), TextNode(8, <<"c">>) >> }
    ELSE DocumentsUpTo(MaxDocumentNodes)

(***************************************************************************)
(* The call stack.                                                         *)
(***************************************************************************)
Top == stack[Len(stack)]

Running(fn, pc) ==
    /\ status = "running"
    /\ stack # <<>>
    /\ Top.fn = fn
    /\ Top.pc = pc

Pop(stk) == SubSeq(stk, 1, Len(stk) - 1)

ReplaceTop(stk, f) == [stk EXCEPT ![Len(stk)] = f]

\* The running function returns: its caller goes on; index() ends when
\* the outermost crawl_collection returns.
Return ==
    /\ stack' = Pop(stack)
    /\ status' = IF Len(stack) = 1 THEN "done" ELSE "running"

\* An exception no frame catches: it unwinds every crawl_collection frame
\* to the except clause of index().
Raise ==
    /\ stack' = <<>>
    /\ status' = "error"

CrawlFrame(collection_id, parent_id, parent_path, parent_path_ids) ==
    [fn |-> "crawl_collection", pc |-> "enter",
     collection_id |-> collection_id, parent_id |-> parent_id,
     parent_path |-> parent_path, parent_path_ids |-> parent_path_ids,
     data |-> None, metadata |-> None, collection_es_id |-> None, i |-> 0]

PassagesFrame(resource_id, collection_metadata) ==
    [fn |-> "index_resource_passages", pc |-> "navigation",
     resource_id |-> resource_id, collection_metadata |-> collection_metadata,
     nav_index |-> <<>>, root |-> <<>>, els |-> <<>>, k |-> 0,
     walk |-> AncestorsEnter(None, <<>>)]

FetchEvent(endpoint, id, ok) ==
    [op |-> "GET", endpoint |-> endpoint, id |-> id, ok |-> ok]

IndexEvent(index, id, body, ok) ==
    [op |-> "index", index |-> index, id |-> id, body |-> body, ok |-> ok]

\* A store that keeps the body it already has under an id.
Put_keepsFirst(store, id, body) ==
    [k \in DOMAIN store \cup {id} |-> IF k \in DOMAIN store THEN store[k] ELSE body]

Put(store, id, body) ==
    [k \in DOMAIN store \cup {id} |-> IF k = id THEN body ELSE store[k]]

(***************************************************************************)
(* index(): the command calls crawl_collection on the root with no visited *)
(* set, so the run starts with a fresh one.                                *)
(***************************************************************************)
Init ==
    /\ status = "idle"
    /\ stack = <<>>
    /\ visited = {}
    /\ api = <<>>
    /\ log = <<>>
    /\ collection_index = <<>>
    /\ document_index = <<>>
    /\ call = [fn |-> None]

Index ==
    /\ status = "idle"
    /\ status' = "running"
    /\ stack' = <<CrawlFrame(TARGET_COLLECTION, None, None, <<>>)>>
    /\ visited' = {}
    /\ UNCHANGED <<api, log, collection_index, document_index, call>>

(***************************************************************************)
(* crawl_collection                                                        *)
(***************************************************************************)
\* crawl_collection with its visited guard left out.
AlreadyVisited_never(collection_id) == FALSE

\* line 392: the id was already visited in this run; return at once.
AlreadyVisited(collection_id) == collection_id \in visited

\* crawl_collection with its type check left out.
IsCollection_any(data) == TRUE

\* line 402: only a description typed Collection is indexed and walked.
IsCollection(data) == data.type = "Collection"

\* The synthesized id used for every collection.
CollectionEsId_synthesized(metadata, collection_id) == "collection_" \o collection_id

\* line 416
CollectionEsId(metadata, collection_id) ==
    IF Falsy(metadata.id) THEN "collection_" \o collection_id ELSE metadata.id

\* lines 388-393
CrawlVisited ==
    /\ Running("crawl_collection", "enter")
    /\ AlreadyVisited(Top.collection_id)
    /\ Return
    /\ UNCHANGED <<visited, api, log, collection_index, document_index, call>>

\* crawl_collection catching the fetch error as it catches the write error.
CrawlFetchFails_caught ==
    /\ Running("crawl_collection", "enter")
    /\ ~AlreadyVisited(Top.collection_id)
    /\ visited' = visited \cup {Top.collection_id}
    /\ log' = Append(log, FetchEvent("collection", Top.collection_id, FALSE))
    /\ Return
    /\ UNCHANGED <<api, collection_index, document_index, call>>

\* lines 394-398: the id is marked, then requests.get or raise_for_status raises.
CrawlFetchFails ==
    /\ Running("crawl_collection", "enter")
    /\ ~AlreadyVisited(Top.collection_id)
    /\ visited' = visited \cup {Top.collection_id}
    /\ log' = Append(log, FetchEvent("collection", Top.collection_id, FALSE))
    /\ Raise
    /\ UNCHANGED <<api, collection_index, document_index, call>>

\* lines 394-416: the id is marked and fetched; a description that is not a
\* Collection ends the call, any other gets its metadata record built.
CrawlFetch ==
    /\ Running("crawl_collection", "enter")
    /\ ~AlreadyVisited(Top.collection_id)
    /\ visited' = visited \cup {Top.collection_id}
    /\ log' = Append(log, FetchEvent("collection", Top.collection_id, TRUE))
    /\ \E data \in CollectionResponses(Top.collection_id) :
         /\ api' = Put(api, Top.collection_id, data)
         /\ IF ~IsCollection(data)
            THEN Return
            ELSE LET metadata == extract_metadata(data, Top.parent_id,
                                     Top.parent_path, Top.parent_path_ids)
                 IN /\ stack' = ReplaceTop(stack,
                          [Top EXCEPT !.pc = "index", !.data = data,
                                      !.metadata = metadata,
                                      !.collection_es_id =
                                          CollectionEsId(metadata, Top.collection_id)])
                    /\ status' = status
    /\ UNCHANGED <<collection_index, document_index, call>>

\* lines 419-425: the collection record is written.
CrawlIndex ==
    /\ Running("crawl_collection", "index")
    /\ log' = Append(log, IndexEvent("collection", Top.collection_es_id,
                                     Top.metadata, TRUE))
    /\ collection_index' = Put(collection_index, Top.collection_es_id, Top.metadata)
    /\ stack' = ReplaceTop(stack, [Top EXCEPT !.pc = "members", !.i = 1])
    /\ UNCHANGED <<status, visited, api, document_index, call>>

\* crawl_collection without the return of line 428: the members are walked.
CrawlIndexFails_continues ==
    /\ Running("crawl_collection", "index")
    /\ log' = Append(log, IndexEvent("collection", Top.collection_es_id,
                                     Top.metadata, FALSE))
    /\ stack' = ReplaceTop(stack, [Top EXCEPT !.pc = "members", !.i = 1])
    /\ UNCHANGED <<status, visited, api, collection_index, document_index, call>>

\* crawl_collection without the try of line 419: the write error propagates.
CrawlIndexFails_raises ==
    /\ Running("crawl_collection", "index")
    /\ log' = Append(log, IndexEvent("collection", Top.collection_es_id,
                                     Top.metadata, FALSE))
    /\ Raise
    /\ UNCHANGED <<visited, api, collection_index, document_index, call>>

\* crawl_collection taking the id out of visited when its write fails.
CrawlIndexFails_forgets ==
    /\ Running("crawl_collection", "index")
    /\ log' = Append(log, IndexEvent("collection", Top.collection_es_id,
                                     Top.metadata, FALSE))
    /\ visited' = visited \ {Top.collection_id}
    /\ Return
    /\ UNCHANGED <<api, collection_index, document_index, call>>

\* lines 426-428: the write raises; the except clause prints and returns.
CrawlIndexFails ==
    /\ Running("crawl_collection", "index")
    /\ log' = Append(log, IndexEvent("collection", Top.collection_es_id,
                                     Top.metadata, FALSE))
    /\ Return
    /\ UNCHANGED <<visited, api, collection_index, document_index, call>>

\* The loop without the exclusion of line 439.
MemberAction_noExclusion(member) ==
    IF Falsy(member.id) THEN "skip"
    ELSE IF member.type = "Collection" THEN "crawl"
    ELSE IF member.type = "Resource" THEN "passages"
    ELSE "skip"

\* lines 439, 450: what the loop does with one member.
MemberAction(member) ==
    IF Falsy(member.id) THEN "skip"
    ELSE IF member.type = "Collection" /\ member.id # "cartulaires" THEN "crawl"
    ELSE IF member.type = "Resource" THEN "passages"
    ELSE "skip"

\* line 431: the member list is exhausted; crawl_collection returns.
CrawlMembersDone ==
    /\ Running("crawl_collection", "members")
    /\ Top.i > Len(Top.data.member)
    /\ Return
    /\ UNCHANGED <<visited, api, log, collection_index, document_index, call>>

\* crawl_collection walking the member list from its end.
CrawlMember_lastFirst ==
    /\ Running("crawl_collection", "members")
    /\ Top.i <= Len(Top.data.member)
    /\ LET member == Top.data.member[Len(Top.data.member) - Top.i + 1]
           here == ReplaceTop(stack, [Top EXCEPT !.i = Top.i + 1])
       IN stack' =
            CASE MemberAction(member) = "crawl" ->
                   Append(here, CrawlFrame(member.id, Top.collection_es_id,
                                           Top.metadata.path, Top.metadata.path_ids))
              [] MemberAction(member) = "passages" ->
                   Append(here, PassagesFrame(member.id, Top.metadata))
              [] OTHER -> here
    /\ UNCHANGED <<status, visited, api, log, collection_index, document_index, call>>

\* lines 431-458: one iteration of the loop over the members.
CrawlMember ==
    /\ Running("crawl_collection", "members")
    /\ Top.i <= Len(Top.data.member)
    /\ LET member == Top.data.member[Top.i]
           here == ReplaceTop(stack, [Top EXCEPT !.i = Top.i + 1])
       IN stack' =
            CASE MemberAction(member) = "crawl" ->
                   Append(here, CrawlFrame(member.id, Top.collection_es_id,
                                           Top.metadata.path, Top.metadata.path_ids))
              [] MemberAction(member) = "passages" ->
                   Append(here, PassagesFrame(member.id, Top.metadata))
              [] OTHER -> here
    /\ UNCHANGED <<status, visited, api, log, collection_index, document_index, call>>

(***************************************************************************)
(* index_resource_passages                                                 *)
(***************************************************************************)
\* lines 295-312: the body of one passage record.
PassageDocument(resource_id, passage_id, nav_index, text, ancestors, collection_metadata) ==
    [resource_id |-> resource_id,
     passage_id |-> passage_id,
     citeType |-> nav_index[passage_id].citeType,
     level |-> nav_index[passage_id].level,
     content |-> text,
     path |-> collection_metadata.path,
     path_ids |-> collection_metadata.path_ids,
     ancestors |-> ancestors,
     metadata |-> [collection_id |-> collection_metadata.id,
                   collection_title |-> collection_metadata.title,
                   path |-> collection_metadata.path,
                   path_ids |-> collection_metadata.path_ids,
                   level |-> collection_metadata.level,
                   dublinCore |-> <<>>]]

\* line 316
PassageEsId(resource_id, passage_id) == resource_id \o "::" \o passage_id

\* index_resource_passages keeping the passages that have no text.
IsPassage_emptyToo(doc, el, nav_index) == doc[el].id \in DOMAIN nav_index

\* lines 278, 287: the element is a passage to write.
IsPassage(doc, el, nav_index) ==
    /\ doc[el].id \in DOMAIN nav_index
    /\ extract_passage_text(doc, el) # <<>>

\* lines 118-122: the navigation request raises.
NavigationFetchFails ==
    /\ Running("index_resource_passages", "navigation")
    /\ log' = Append(log, FetchEvent("navigation", Top.resource_id, FALSE))
    /\ Raise
    /\ UNCHANGED <<visited, api, collection_index, document_index, call>>

\* line 262: the navigation index is built from the response.
NavigationFetch ==
    /\ Running("index_resource_passages", "navigation")
    /\ log' = Append(log, FetchEvent("navigation", Top.resource_id, TRUE))
    /\ \E items \in NavigationResponses(Top.resource_id) :
         stack' = ReplaceTop(stack,
                     [Top EXCEPT !.pc = "document",
                                 !.nav_index = build_navigation_index(items)])
    /\ UNCHANGED <<status, visited, api, collection_index, document_index, call>>

\* lines 265-271: the document request raises (or the body does not parse).
DocumentFetchFails ==
    /\ Running("index_resource_passages", "document")
    /\ log' = Append(log, FetchEvent("document", Top.resource_id, FALSE))
    /\ Raise
    /\ UNCHANGED <<visited, api, collection_index, document_index, call>>

\* lines 265-273: the document is fetched and parsed, its identified
\* elements listed.
DocumentFetch ==
    /\ Running("index_resource_passages", "document")
    /\ log' = Append(log, FetchEvent("document", Top.resource_id, TRUE))
    /\ \E root \in DocumentResponses(Top.resource_id) :
         stack' = ReplaceTop(stack,
                     [Top EXCEPT !.pc = "elements", !.root = root,
                                 !.els = ElementsWithId(root), !.k = 1])
    /\ UNCHANGED <<status, visited, api, collection_index, document_index, call>>

\* line 273: no element is left; index_resource_passages returns.
PassagesDone ==
    /\ Running("index_resource_passages", "elements")
    /\ Top.k > Len(Top.els)
    /\ Return
    /\ UNCHANGED <<visited, api, log, collection_index, document_index, call>>

\* lines 278-288: the element is not in the navigation, or has no text.
PassageSkip ==
    /\ Running("index_resource_passages", "elements")
    /\ Top.k <= Len(Top.els)
    /\ ~IsPassage(Top.root, Top.els[Top.k], Top.nav_index)
    /\ stack' = ReplaceTop(stack, [Top EXCEPT !.k = Top.k + 1])
    /\ UNCHANGED <<status, visited, api, log, collection_index, document_index, call>>

\* lines 278-291: the element is a passage; get_ancestors is called for it.
PassageFound ==
    /\ Running("index_resource_passages", "elements")
    /\ Top.k <= Len(Top.els)
    /\ IsPassage(Top.root, Top.els[Top.k], Top.nav_index)
    /\ stack' = ReplaceTop(stack,
                   [Top EXCEPT !.pc = "ancestors",
                               !.walk = AncestorsEnter(Top.root[Top.els[Top.k]].id,
                                                       Top.nav_index)])
    /\ UNCHANGED <<status, visited, api, log, collection_index, document_index, call>>

\* lines 103-113: one turn of the loop of get_ancestors.
GetAncestorsLoop ==
    /\ Running("index_resource_passages", "ancestors")
    /\ AncestorsContinue(Top.walk, Top.nav_index)
    /\ AncestorsFollowed(Top.walk, Top.nav_index)
    /\ stack' = ReplaceTop(stack,
                   [Top EXCEPT !.walk = AncestorsIterate(Top.walk, Top.nav_index)])
    /\ UNCHANGED <<status, visited, api, log, collection_index, document_index, call>>

\* lines 115, 295-318: get_ancestors returns; the passage record is built
\* and written.
PassageIndex ==
    /\ Running("index_resource_passages", "ancestors")
    /\ ~AncestorsContinue(Top.walk, Top.nav_index)
    /\ LET passage_id == Top.walk.passage_id
           document == PassageDocument(Top.resource_id, passage_id, Top.nav_index,
                           extract_passage_text(Top.root, Top.els[Top.k]),
                           Top.walk.ancestors, Top.collection_metadata)
       IN /\ log' = Append(log, IndexEvent("document",
                        PassageEsId(Top.resource_id, passage_id), document, TRUE))
          /\ document_index' = Put(document_index,
                        PassageEsId(Top.resource_id, passage_id), document)
    /\ stack' = ReplaceTop(stack, [Top EXCEPT !.pc = "elements", !.k = Top.k + 1])
    /\ UNCHANGED <<status, visited, api, collection_index, call>>

\* index_resource_passages catching the write error and going on.
PassageIndexFails_skips ==
    /\ Running("index_resource_passages", "ancestors")
    /\ ~AncestorsContinue(Top.walk, Top.nav_index)
    /\ LET passage_id == Top.walk.passage_id
           document == PassageDocument(Top.resource_id, passage_id, Top.nav_index,
                           extract_passage_text(Top.root, Top.els[Top.k]),
                           Top.walk.ancestors, Top.collection_metadata)
       IN log' = Append(log, IndexEvent("document",
                        PassageEsId(Top.resource_id, passage_id), document, FALSE))
    /\ stack' = ReplaceTop(stack, [Top EXCEPT !.pc = "elements", !.k = Top.k + 1])
    /\ UNCHANGED <<status, visited, api, collection_index, document_index, call>>

\* lines 314-318: the write raises; nothing catches it.
PassageIndexFails ==
    /\ Running("index_resource_passages", "ancestors")
    /\ ~AncestorsContinue(Top.walk, Top.nav_index)
    /\ LET passage_id == Top.walk.passage_id
           document == PassageDocument(Top.resource_id, passage_id, Top.nav_index,
                           extract_passage_text(Top.root, Top.els[Top.k]),
                           Top.walk.ancestors, Top.collection_metadata)
       IN log' = Append(log, IndexEvent("document",
                        PassageEsId(Top.resource_id, passage_id), document, FALSE))
    /\ Raise
    /\ UNCHANGED <<visited, api, collection_index, document_index, call>>

Next ==
    \/ Index
    \/ CrawlVisited
    \/ CrawlFetchFails
    \/ CrawlFetch
    \/ CrawlIndex
    \/ CrawlIndexFails
    \/ CrawlMembersDone
    \/ CrawlMember
    \/ NavigationFetchFails
    \/ NavigationFetch
    \/ DocumentFetchFails
    \/ DocumentFetch
    \/ PassagesDone
    \/ PassageSkip
    \/ PassageFound
    \/ GetAncestorsLoop
    \/ PassageIndex
    \/ PassageIndexFails

Spec == Init /\ [][Next]_vars

(***************************************************************************)
(* index_resource_passages on its own, on a resource that answers any      *)
(* chain of passages and any small document.                               *)
(***************************************************************************)
\* The record of the collection that lists the resource: the root, with no
\* parent.
OwnerMetadata ==
    extract_metadata([id |-> TARGET_COLLECTION, type |-> "Collection",
                      title |-> TitleOf(TARGET_COLLECTION), description |-> None,
                      dtsVersion |-> None, totalItems |-> None,
                      totalChildren |-> None, totalParents |-> None,
                      dublincore |-> <<>>,
                      member |-> <<[id |-> "x2", type |-> "Resource"]>>],
                     None, None, <<>>)

\* line 456: index_resource_passages(app, member_id, metadata)
InitPassages ==
    /\ status = "running"
    /\ stack = <<PassagesFrame("x2", OwnerMetadata)>>
    /\ visited = {TARGET_COLLECTION}
    /\ api = <<>>
    /\ log = <<>>
    /\ collection_index = <<>>
    /\ document_index = <<>>
    /\ call = [fn |-> None]

NextPassages ==
    \/ NavigationFetchFails
    \/ NavigationFetch
    \/ DocumentFetchFails
    \/ DocumentFetch
    \/ PassagesDone
    \/ PassageSkip
    \/ PassageFound
    \/ GetAncestorsLoop
    \/ PassageIndex
    \/ PassageIndexFails

SpecPassages == InitPassages /\ [][NextPassages]_vars

(***************************************************************************)
(* build_navigation_index and get_ancestors on their own, on every small   *)
(* member array.                                                           *)
(***************************************************************************)
InitNavigation ==
    /\ status = "call"
    /\ stack = <<>>
    /\ visited = {}
    /\ api = <<>>
    /\ log = <<>>
    /\ collection_index = <<>>
    /\ document_index = <<>>
    /\ \E items \in NavigationListsUpTo(MaxNavItems, MaxAltItems) :
         call = [fn |-> "build_navigation_index", items |-> items,
                 nav_index |-> <<>>, walk |-> AncestorsEnter(None, <<>>)]

\* line 262: nav_index = build_navigation_index(dts_url, resource_id)
BuildNavigationIndex ==
    /\ call.fn = "build_navigation_index"
    /\ call' = [call EXCEPT !.fn = "index_resource_passages",
                            !.nav_index = build_navigation_index(call.items)]
    /\ UNCHANGED <<status, stack, visited, api, log, collection_index, document_index>>

\* line 291: get_ancestors(passage_id, nav_index), for a passage of the
\* index or for one it does not hold.
GetAncestorsCall ==
    /\ call.fn = "index_resource_passages"
    /\ \E passage_id \in DOMAIN call.nav_index \cup {"p0"} :
         call' = [call EXCEPT !.fn = "get_ancestors",
                              !.walk = AncestorsEnter(passage_id, call.nav_index)]
    /\ UNCHANGED <<status, stack, visited, api, log, collection_index, document_index>>

\* lines 103-113: one turn of the loop.
GetAncestorsTurn ==
    /\ call.fn = "get_ancestors"
    /\ AncestorsContinue(call.walk, call.nav_index)
    /\ AncestorsFollowed(call.walk, call.nav_index)
    /\ call' = [call EXCEPT !.walk = AncestorsIterate(call.walk, call.nav_index)]
    /\ UNCHANGED <<status, stack, visited, api, log, collection_index, document_index>>

\* line 115: return ancestors
GetAncestorsReturn ==
    /\ call.fn = "get_ancestors"
    /\ ~AncestorsContinue(call.walk, call.nav_index)
    /\ call' = [call EXCEPT !.fn = "returned"]
    /\ UNCHANGED <<status, stack, visited, api, log, collection_index, document_index>>

NextNavigation ==
    \/ BuildNavigationIndex
    \/ GetAncestorsCall
    \/ GetAncestorsTurn
    \/ GetAncestorsReturn

SpecNavigation == InitNavigation /\ [][NextNavigation]_vars

(***************************************************************************)
(* extract_metadata on its own, on responses with a descriptive block and  *)
(* an extensions block.                                                    *)
(***************************************************************************)
\* The elements of an array of a descriptive block.
ElementPool == { JStr("Y"), JNum(1850), JObj("X", None), JObj(None, "u") }

\* The values of a key of a descriptive block, with arrays of up to n
\* elements.
ValuePool(n) ==
    { JNull, JStr("X"), JNum(1850) }
    \cup { JObj(label, id) : label \in {None, "X"}, id \in {None, "u"} }
    \cup { JList(items) : items \in SeqsUpTo(ElementPool, n) }

\* The descriptive blocks: any values under the keys creator and note, or
\* under one of them, or no key.
DescriptiveBlocks(n) ==
    UNION { [keys -> ValuePool(n)] : keys \in SUBSET {"creator", "note"} }

\* The extension blocks: a null or a string under each of some keys.
ExtensionKeys ==
    { <<"d", "t", "s", ":", "x">>, <<"d", "t", "s", "_", "y">>, <<"a", ":", "b", ":", "c">> }

ExtensionBlocks ==
    UNION { [keys -> {JNull, JStr("v")}] : keys \in SUBSET ExtensionKeys }

\* The JSON bodies of GET /collection given to extract_metadata. The API names
\* the descriptive block dublinCore; a body may also carry one under the key
\* dublincore. A key the body does not have is the empty block.
MetadataResponses(n) ==
    { [id |-> TARGET_COLLECTION, type |-> "Collection",
       title |-> TitleOf(TARGET_COLLECTION), description |-> None,
       dtsVersion |-> None, totalItems |-> None, totalChildren |-> None,
       totalParents |-> None, member |-> <<>>,
       dublinCore |-> blocks[1], dublincore |-> blocks[2], extensions |-> blocks[3]] :
        blocks \in { <<dc, <<>>, <<>>>> : dc \in DescriptiveBlocks(n) }
                   \cup { << <<>>, dc, <<>>>> : dc \in DescriptiveBlocks(n) }
                   \cup { << <<>>, <<>>, ext>> : ext \in ExtensionBlocks } }

InitMetadata ==
    /\ status = "call"
    /\ stack = <<>>
    /\ visited = {}
    /\ api = <<>>
    /\ log = <<>>
    /\ collection_index = <<>>
    /\ document_index = <<>>
    /\ \E response \in MetadataResponses(MaxElements) :
         call = [fn |-> "extract_metadata", response |-> response, metadata |-> None]

\* lines 406-411: metadata = extract_metadata(data, ...), for the root.
ExtractMetadata ==
    /\ call.fn = "extract_metadata"
    /\ call' = [call EXCEPT !.fn = "returned",
                            !.metadata = extract_metadata(call.response, None, None, <<>>)]
    /\ UNCHANGED <<status, stack, visited, api, log, collection_index, document_index>>

NextMetadata == ExtractMetadata

SpecMetadata == InitMetadata /\ [][NextMetadata]_vars

(***************************************************************************)
(* extract_passage_text on its own, on every small document.               *)
(***************************************************************************)
InitText ==
    /\ status = "call"
    /\ stack = <<>>
    /\ visited = {}
    /\ api = <<>>
    /\ log = <<>>
    /\ collection_index = <<>>
    /\ document_index = <<>>
    /\ \E doc \in DocumentsUpTo(MaxNodes) :
         call = [fn |-> "extract_passage_text", doc |-> doc, el |-> 0, text |-> <<>>]

\* line 284: text = extract_passage_text(el), for an element bearing xml:id.
ExtractPassageText ==
    /\ call.fn = "extract_passage_text"
    /\ call.el = 0
    /\ \E el \in DOMAIN call.doc :
         /\ HasXmlId(call.doc, el)
         /\ call' = [call EXCEPT !.el = el,
                                 !.text = extract_passage_text(call.doc, el)]
    /\ UNCHANGED <<status, stack, visited, api, log, collection_index, document_index>>

NextText == ExtractPassageText

SpecText == InitText /\ [][NextText]_vars

(***************************************************************************)
(* Reading the log and the source graph.                                   *)
(***************************************************************************)
\* The positions of the log where GET /collection?id=<id> was sent.
CollectionFetches(id) ==
    { j \in DOMAIN log : /\ log[j].op = "GET"
                         /\ log[j].endpoint = "collection"
                         /\ log[j].id = id }

\* The positions of the log where a write to the given index was issued.
Writes(index) ==
    { j \in DOMAIN log : log[j].op = "index" /\ log[j].index = index }

CollectionWrites(id) == { j \in Writes("collection") : log[j].id = id }

\* Every request and every write so far succeeded.
NoFailure == \A j \in DOMAIN log : log[j].ok

\* A member entry that names a sub-collection to walk.
IsSubCollectionLink(m) ==
    m.id # None /\ m.id # "" /\ m.type = "Collection" /\ m.id # "cartulaires"

\* A member entry that names a resource.
IsResourceLink(m) == m.id # None /\ m.id # "" /\ m.type = "Resource"

Members(n) == { api[n].member[i] : i \in DOMAIN api[n].member }

\* The ids answered with a description typed Collection.
Described == { n \in DOMAIN api : api[n].type = "Collection" }

\* The ids reachable from the root in the source graph as answered so far:
\* the root when it is a Collection, and every id described as a Collection
\* that a reachable collection lists as a sub-collection.
RECURSIVE ReachableFrom(_)
ReachableFrom(S) ==
    LET T == S \cup { n \in Described :
                        \E p \in S : \E m \in Members(p) :
                            IsSubCollectionLink(m) /\ m.id = n }
    IN IF T = S THEN S ELSE ReachableFrom(T)

Reachable == ReachableFrom({TARGET_COLLECTION} \cap Described)

\* How often an id occurs in the traversal: as the root, and in the member
\* lists of the reachable collections.
Occurrences(id) ==
    LET RECURSIVE Count(_)
        Count(S) ==
            IF S = {} THEN 0
            ELSE LET n == CHOOSE x \in S : TRUE
                 IN Cardinality({ i \in DOMAIN api[n].member :
                                    api[n].member[i].id = id }) + Count(S \ {n})
    IN (IF id = TARGET_COLLECTION THEN 1 ELSE 0) + Count(Reachable)

\* The ids written by the writes at the given log positions, in order.
RECURSIVE KeysOf(_)
KeysOf(js) == IF js = <<>> THEN <<>> ELSE <<log[Head(js)].id>> \o KeysOf(Tail(js))

WrittenKeys == KeysOf(InOrder({ j \in DOMAIN log : log[j].op = "index" }))

(***************************************************************************)
(* The claims.                                                             *)
(***************************************************************************)

\* C1: in one run no collection id is fetched or indexed more than once,
\* and when the run ends with no failure every id that occurs more than
\* once in the traversal (self-reference, cycle, diamond) and is described
\* as a Collection was fetched exactly once and written exactly once.
C1_FetchedAndIndexedOnce ==
    /\ \A id \in DOMAIN api :
         /\ Cardinality(CollectionFetches(id)) <= 1
         /\ Cardinality(CollectionWrites(id)) <= 1
    /\ (status = "done" /\ NoFailure) =>
         \A id \in Described :
            Occurrences(id) > 1 =>
               /\ Cardinality(CollectionFetches(id)) = 1
               /\ Cardinality(CollectionWrites(id)) = 1

\* A finished run over a diamond: c2 is listed by R and by c1.
C1_Witness ==
    /\ status = "done" /\ NoFailure
    /\ {"R", "c1", "c2"} \subseteq Described
    /\ \E m \in Members("R") : m.id = "c2"
    /\ \E m \in Members("c1") : m.id = "c2"
    /\ Occurrences("c2") = 2

TitleFor(id) == IF api[id].title = None THEN id ELSE api[id].title

\* C3: every collection record has level = length(pathIds) - 1 and the
\* node's title or else its id as title; the root's record has
\* pathIds = [id] and path = title, any other record has the pathIds of its
\* parent's record plus its id, and path = parent's path > title.
C3_PathAccumulation ==
    \A j \in Writes("collection") :
        LET b == log[j].body
        IN /\ b.title = TitleFor(b.id)
           /\ b.level = Len(b.path_ids) - 1
           /\ IF b.id = TARGET_COLLECTION
              THEN /\ b.path_ids = <<b.id>>
                   /\ b.path = TitleFor(b.id)
              ELSE /\ b.parent_id \in DOMAIN collection_index
                   /\ b.path_ids = collection_index[b.parent_id].path_ids \o <<b.id>>
                   /\ b.path = collection_index[b.parent_id].path \o " > "
                                  \o TitleFor(b.id)
           /\ ( /\ b.id = "c2" /\ b.title = "C"
                /\ b.parent_id \in DOMAIN collection_index
                /\ collection_index[b.parent_id].path = "A > B"
                /\ collection_index[b.parent_id].path_ids = <<"R", "c1">> )
              => ( /\ b.path = "A > B > C"
                   /\ b.path_ids = <<"R", "c1", "c2">>
                   /\ b.level = 2 )

\* A record two levels down has been written under the path "A > B", and
\* another record got its id as title.
C3_Witness ==
    /\ \E j \in Writes("collection") :
         /\ log[j].body.path = "A > B > C"
         /\ log[j].body.path_ids = <<"R", "c1", "c2">>
         /\ log[j].body.level = 2
    /\ "R" \in DOMAIN collection_index
    /\ collection_index["R"].path = "A"

\* C4: every write of a sub-collection's record and every write of a passage
\* record comes after a successful write of the record of the collection
\* that lists it.
C4_ParentRecordFirst ==
    /\ \A j \in Writes("collection") :
         log[j].body.parent_id # None =>
            \E i \in CollectionWrites(log[j].body.parent_id) : i < j /\ log[i].ok
    /\ \A j \in Writes("document") :
         \E i \in CollectionWrites(log[j].body.metadata.collection_id) :
            i < j /\ log[i].ok

\* A sub-collection's record and a passage record have been written.
C4_Witness ==
    /\ \E j \in Writes("collection") : log[j].body.parent_id = "R"
    /\ \E j \in Writes("document") : log[j].body.metadata.collection_id = "c1"

\* The last thing sent to the outside.
LastEvent == log[Len(log)]

\* The step writes a collection record and the write fails.
CollectionWriteFailsNow ==
    /\ Running("crawl_collection", "index")
    /\ log' # log
    /\ ~log'[Len(log')].ok

\* The store holds what the successful writes of the log put there, the last
\* write of a key winning.
StoreOf(index) ==
    LET ok == { j \in Writes(index) : log[j].ok }
        keys == { log[j].id : j \in ok }
        last(k) == CHOOSE j \in ok : log[j].id = k /\ \A i \in ok : log[i].id = k => i <= j
    IN [k \in keys |-> log[last(k)].body]

\* C5: a failed write of a collection record stays inside crawl_collection:
\* the call returns at once to its caller, which is at its loop over the
\* members, just past the failed node; nothing is written for a member of
\* the failed node, and the run does not end in an error because of it.
C5_CollectionWriteFailureSkipsSubtree ==
    /\ [](\A j \in Writes("collection") :
            ~log[j].ok =>
               /\ \A k \in Writes("collection") :
                     k > j => log[k].body.parent_id # log[j].id
               /\ \A k \in Writes("document") :
                     k > j => log[k].body.metadata.collection_id # log[j].id
               /\ (status = "error" => LastEvent # log[j]))
    /\ [][CollectionWriteFailsNow =>
            /\ stack' = Pop(stack)
            /\ status' = (IF Len(stack) = 1 THEN "done" ELSE "running")
            /\ UNCHANGED <<visited, api, collection_index, document_index>>
            /\ Len(stack) > 1 =>
                 LET caller == stack'[Len(stack')]
                 IN /\ caller.fn = "crawl_collection"
                    /\ caller.pc = "members"
                    /\ caller.i > 1
                    /\ caller.data.member[caller.i - 1].id = Top.collection_id]_vars

\* The write of c1's record failed, c1 lists a member, and the walker went on
\* to c1's sibling c2, which it fetched and wrote.
C5_Witness ==
    /\ status = "done"
    /\ \E j \in CollectionWrites("c1") : ~log[j].ok
    /\ {"c1", "c2"} \subseteq Described
    /\ api["R"].member = << [id |-> "c1", type |-> "Collection"],
                            [id |-> "c2", type |-> "Collection"] >>
    /\ api["c1"].member = << [id |-> "x1", type |-> "Resource"] >>
    /\ "c2" \in DOMAIN collection_index
    /\ "c1" \notin DOMAIN collection_index

\* C6: a failed /collection fetch is the last thing the run does: the error
\* leaves every crawl_collection frame, the run ends in error, no fetch and
\* no write follows, and the store keeps exactly what was written before.
C6_FetchFailureAbortsRun ==
    \A j \in DOMAIN log :
        (log[j].op = "GET" /\ log[j].endpoint = "collection" /\ ~log[j].ok) =>
            /\ j = Len(log)
            /\ status = "error"
            /\ stack = <<>>
            /\ collection_index = StoreOf("collection")
            /\ document_index = StoreOf("document")

\* The fetch of c1 failed after R's record was written; c1's sibling c2 was
\* never visited.
C6_Witness ==
    /\ status = "error"
    /\ LastEvent = FetchEvent("collection", "c1", FALSE)
    /\ api["R"].member = << [id |-> "c1", type |-> "Collection"],
                            [id |-> "c2", type |-> "Collection"] >>
    /\ "R" \in DOMAIN collection_index
    /\ "c2" \notin visited

\* A failure inside index_resource_passages.
IsPassageFailure(e) ==
    /\ ~e.ok
    /\ \/ e.op = "GET" /\ e.endpoint \in {"navigation", "document"}
       \/ e.op = "index" /\ e.index = "document"

\* C7: a failed navigation fetch, document fetch or passage write is the last
\* thing the run does: the error leaves index_resource_passages and every
\* crawl_collection frame, the run ends in error, the passages written before
\* stay in the store and nothing more is written.
C7_PassageFailureAbortsRun ==
    \A j \in DOMAIN log :
        IsPassageFailure(log[j]) =>
            /\ j = Len(log)
            /\ status = "error"
            /\ stack = <<>>
            /\ document_index = StoreOf("document")
            /\ collection_index = StoreOf("collection")

\* The write of x1::p2 failed after x1::p1 was written; the sibling c1 that
\* follows x1 was never visited.
C7_Witness ==
    /\ status = "error"
    /\ LastEvent.op = "index" /\ LastEvent.id = "x1::p2" /\ ~LastEvent.ok
    /\ "x1::p1" \in DOMAIN document_index
    /\ api["R"].member = << [id |-> "x1", type |-> "Resource"],
                            [id |-> "c1", type |-> "Collection"] >>
    /\ "c1" \notin visited

\* C8: for an id whose description is not typed Collection no record is
\* written, no call for it goes on past its first lines, and none of its members
\* is fetched, walked or passage-extracted: every request is for the root or
\* for a member of a collection whose record was written.
C8_NonCollectionIsNotIndexed ==
    /\ \A id \in DOMAIN api \ Described :
         /\ \A j \in Writes("collection") :
               log[j].id # id /\ log[j].body.id # id /\ log[j].body.parent_id # id
         /\ \A j \in Writes("document") :
               log[j].body.metadata.collection_id # id
         /\ \A f \in DOMAIN stack :
               IF stack[f].fn = "crawl_collection"
               THEN /\ stack[f].collection_id = id => stack[f].pc = "enter"
                    /\ stack[f].parent_id # id
               ELSE stack[f].collection_metadata.id # id
    /\ \A j \in DOMAIN log :
         log[j].op = "GET" =>
            \/ log[j].endpoint = "collection" /\ log[j].id = TARGET_COLLECTION
            \/ \E n \in Described \cap DOMAIN collection_index :
                 \E m \in Members(n) :
                    /\ m.id = log[j].id
                    /\ IF log[j].endpoint = "collection"
                       THEN m.type = "Collection" ELSE m.type = "Resource"

\* c1 was described as a Resource listing the collection c2 and the resource
\* x1; the run ended without touching either.
C8_Witness ==
    /\ status = "done"
    /\ "c1" \in DOMAIN api
    /\ api["c1"].type = "Resource"
    /\ api["c1"].member = << [id |-> "c2", type |-> "Collection"],
                             [id |-> "x1", type |-> "Resource"] >>
    /\ "c2" \notin visited
    /\ \A j \in DOMAIN log : log[j].id # "x1"

\* The member the loop of crawl_collection is about to look at.
AtMember == Running("crawl_collection", "members") /\ Top.i <= Len(Top.data.member)

Chars(text) == { text[i] : i \in DOMAIN text }

\* The text nodes below an element that lie inside none of its identified
\* descendants, at whatever depth.
TextOutsideIdentified(doc, el) ==
    { t \in DOMAIN doc :
        /\ doc[t].kind = "text"
        /\ IsAncestor(doc, el, t)
        /\ ~\E d \in DescendantsWithId(doc, el) : IsAncestor(doc, d, t) }

\* C10: for an element with an identified descendant, the extracted content
\* holds the text of every text node below it that lies inside no identified
\* descendant, and nothing of a text node that lies inside one, however deep
\* the identified descendant sits.
C10_IdentifiedDescendantTextExcluded ==
    (call.fn = "extract_passage_text" /\ call.el # 0
        /\ DescendantsWithId(call.doc, call.el) # {}) =>
        \A t \in DOMAIN call.doc :
            (call.doc[t].kind = "text" /\ call.doc[t].text = <<LetterAt(t)>>) =>
                (LetterAt(t) \in Chars(call.text)
                    <=> t \in TextOutsideIdentified(call.doc, call.el))

(***************************************************************************)
(* The content of the passage records.                                     *)
(***************************************************************************)
\* A text with no white space at either end, whose every run of white space
\* is one space.
WhitespaceNormalized(text) ==
    /\ text # <<>> => ~IsSpace(text[1]) /\ ~IsSpace(text[Len(text)])
    /\ \A i \in DOMAIN text :
         IsSpace(text[i]) =>
            /\ text[i] = " "
            /\ i < Len(text) => ~IsSpace(text[i + 1])

\* C11: the content of every passage record index_resource_passages writes
\* is whitespace-normalized: no white space at either end, and every run of
\* spaces, tabs or newlines of the extracted text, a run inside one text node
\* included, is exactly one space.
C11_ContentWhitespaceNormalized ==
    \A j \in Writes("document") : WhitespaceNormalized(log[j].body.content)

(***************************************************************************)
(* Which elements become passage records.                                  *)
(***************************************************************************)
\* index_resource_passages is in its loop over the identified elements.
InElementLoop ==
    /\ status = "running"
    /\ stack # <<>>
    /\ Top.fn = "index_resource_passages"
    /\ Top.pc \in {"elements", "ancestors"}

\* The writes issued for the element at a node of the document in hand.
PassageWrites(el) ==
    { j \in Writes("document") :
        log[j].id = PassageEsId(Top.resource_id, Top.root[el].id) }

\* The element is named by the navigation index and its text, normalized,
\* is not empty.
HasEntryAndText(el) ==
    /\ Top.root[el].id \in DOMAIN Top.nav_index
    /\ normalize_text(extract_passage_text(Top.root, el)) # <<>>

\* C12: of the identified elements index_resource_passages has gone through,
\* exactly those whose identifier is a key of the navigation index and whose
\* extracted, normalized text is non-empty have a passage record written,
\* once; the others, and the elements not yet reached, have no write.
C12_WrittenIffInNavigationWithText ==
    InElementLoop =>
        \A m \in DOMAIN Top.els :
            Cardinality(PassageWrites(Top.els[m])) =
                IF m < Top.k /\ HasEntryAndText(Top.els[m]) THEN 1 ELSE 0

\* The loop is over a document with a passage written, an element the
\* navigation does not name, and a named element with no text.
C12_Witness ==
    /\ InElementLoop
    /\ Top.pc = "elements"
    /\ Top.k > Len(Top.els)
    /\ \E m \in DOMAIN Top.els : PassageWrites(Top.els[m]) # {}
    /\ \E m \in DOMAIN Top.els : Top.root[Top.els[m]].id \notin DOMAIN Top.nav_index
    /\ \E m \in DOMAIN Top.els :
         /\ Top.root[Top.els[m]].id \in DOMAIN Top.nav_index
         /\ extract_passage_text(Top.root, Top.els[m]) = <<>>

(***************************************************************************)
(* The navigation index and the ancestor chains.                           *)
(***************************************************************************)
\* The entry has a parent that the index holds.
HasParentEntry(nav_index, id) ==
    /\ id \in DOMAIN nav_index
    /\ ~Falsy(nav_index[id].parent)
    /\ nav_index[id].parent \in DOMAIN nav_index

\* C13: get_ancestors returns the chain root-first: its last element is the
\* passage's parent, each element is the parent of the next, its first
\* element is an entry with no parent; each element is {id, level, citeType}
\* of its entry, none is the passage itself, and the chain is empty for a
\* passage with no parent.
C13_AncestorsRootFirst ==
    call.fn = "returned" =>
        LET nav_index == call.nav_index
            passage_id == call.walk.passage_id
            ancestors == call.walk.ancestors
            k == Len(ancestors)
        IN /\ k = 0 <=> ~HasParentEntry(nav_index, passage_id)
           /\ k > 0 => /\ ancestors[k].id = nav_index[passage_id].parent
                       /\ ~HasParentEntry(nav_index, ancestors[1].id)
           /\ \A i \in 1..(k - 1) :
                ancestors[i].id = nav_index[ancestors[i + 1].id].parent
           /\ \A i \in 1..k :
                /\ ancestors[i].id # passage_id
                /\ ancestors[i] = [id |-> ancestors[i].id,
                                   level |-> nav_index[ancestors[i].id].level,
                                   citeType |-> nav_index[ancestors[i].id].citeType]

\* get_ancestors has returned a chain of three entries for a passage three
\* levels deep.
C13_Witness ==
    /\ call.fn = "returned"
    /\ Len(call.walk.ancestors) = 3
    /\ call.walk.ancestors[1].id # call.walk.ancestors[3].id

\* The entries a call of get_ancestors has stood on: the passage and the
\* ancestors collected so far.
WalkedEntries ==
    {call.walk.passage_id}
        \cup { call.walk.ancestors[i].id : i \in DOMAIN call.walk.ancestors }

\* C14: get_ancestors terminates on every finite navigation index, one with
\* a cycle of parents included, and a parent id that is not a key ends the
\* walk. Each turn of the loop depends on the current entry alone, so the
\* walk ends if and only if it never comes back to an entry it has stood on:
\* the entries walked are as many as the turns taken, plus the passage.
C14_AncestorWalkTerminates ==
    call.fn = "get_ancestors" =>
        /\ Cardinality(WalkedEntries) = Len(call.walk.ancestors) + 1
        /\ (/\ call.walk.current # None
            /\ call.nav_index[call.walk.current].parent \notin DOMAIN call.nav_index)
              => ~ENABLED GetAncestorsTurn

\* The items of the member array that carry a value under the field.
ItemsWith(field) ==
    { i \in DOMAIN call.items : ~Falsy(call.items[i][field]) }

\* The parent an item names, under "parent" or else under "parentIdentifier".
NamedParent(item) ==
    IF item.parent \notin {None, ""} THEN item.parent ELSE item.parentIdentifier

OptionalFields ==
    {"description", "parent_id", "dtsVersion", "totalItems", "totalChildren",
     "totalParents"}

\* C16: no record written to the collection index has a null-valued field:
\* a field whose source value is missing or null (description, the parent id
\* of the root, dtsVersion, totalItems, totalChildren, totalParents) is
\* absent from the record.
C16_NoNullField ==
    \A j \in Writes("collection") :
        \A field \in OptionalFields :
            field \in DOMAIN log[j].body => log[j].body[field] # None

\* The string the claim gives an object: its label, else its id, else its
\* rendering.
LabelElseId(v) ==
    IF v.label # None THEN v.label ELSE IF v.id # None THEN v.id ELSE PyStr(v)

\* The string the claim gives an element of a sequence: the object rule for
\* an object, the string rendering for anything else.
ReducedElement(v) == IF v.t = "obj" THEN LabelElseId(v) ELSE PyStr(v)

\* The string the claim gives a value.
FlatString(v) ==
    CASE v.t = "obj" -> LabelElseId(v)
      [] v.t = "list" ->
            JoinComma([i \in DOMAIN v.items |-> ReducedElement(v.items[i])])
      [] OTHER -> PyStr(v)

\* C17: the descriptive block of the record is built from the node's
\* dublinCore object: a null value drops the key, an object becomes its
\* label, else its id, else its string rendering, a sequence becomes the
\* comma-and-space join of its elements each reduced by the same object
\* rule, any other non-string value is coerced to a string.
C17_DescriptiveBlockFlattened ==
    call.fn = "returned" =>
        LET dc == call.response.dublinCore
        IN call.metadata.dublincore =
              [key \in { k \in DOMAIN dc : dc[k].t # "null" } |-> FlatString(dc[key])]

\* The keys of an extensions block whose value is not null.
KeptExtensions(ext) == { k \in DOMAIN ext : ext[k].t # "null" }

\* C18: in the record built for a node, every key of the node's extensions
\* block has each ':' replaced by '_' and null-valued extensions are
\* dropped; normalizing a normalized key changes nothing; a block that
\* normalizes to the empty mapping is omitted from the record.
C18_ExtensionsNormalized ==
    call.fn = "returned" =>
        LET ext == call.response.extensions
        IN IF KeptExtensions(ext) = {}
           THEN "extensions" \notin DOMAIN call.metadata
           ELSE /\ "extensions" \in DOMAIN call.metadata
                /\ DOMAIN call.metadata.extensions =
                      { normalize_extension_key(k) : k \in KeptExtensions(ext) }
                /\ \A k \in DOMAIN call.metadata.extensions :
                      /\ ":" \notin { k[i] : i \in DOMAIN k }
                      /\ normalize_extension_key(k) = k

(***************************************************************************)
(* The order of the walk.                                                  *)
(***************************************************************************)
IsRequestOrCollectionWrite(e) == e.op = "GET" \/ e.index = "collection"

\* The requests and the collection writes of the log, in order, each as
\* <<operation, endpoint or index, id>>.
RequestsAndCollectionWrites ==
    LET events == SelectSeq(log, IsRequestOrCollectionWrite)
    IN [j \in DOMAIN events |->
          <<events[j].op,
            IF events[j].op = "GET" THEN events[j].endpoint ELSE events[j].index,
            events[j].id>>]

\* The depth-first preorder of the source graph from a node, members in the
\* order listed, as the sequence of requests and collection writes it asks
\* for; seen is the set of nodes met before, and the result carries the set
\* of nodes met after.
RECURSIVE Preorder(_, _), PreorderOfMembers(_, _)
Preorder(id, seen) ==
    IF id \in seen THEN [trace |-> <<>>, seen |-> seen]
    ELSE IF api[id].type # "Collection"
    THEN [trace |-> << <<"GET", "collection", id>> >>, seen |-> seen \cup {id}]
    ELSE LET below == PreorderOfMembers(api[id].member, seen \cup {id})
         IN [trace |-> << <<"GET", "collection", id>>, <<"index", "collection", id>> >>
                        \o below.trace,
             seen |-> below.seen]

PreorderOfMembers(members, seen) ==
    IF members = <<>> THEN [trace |-> <<>>, seen |-> seen]
    ELSE LET member == Head(members)
             first == IF IsSubCollectionLink(member) THEN Preorder(member.id, seen)
                      ELSE IF IsResourceLink(member)
                      THEN [trace |-> << <<"GET", "navigation", member.id>>,
                                         <<"GET", "document", member.id>> >>,
                            seen |-> seen]
                      ELSE [trace |-> <<>>, seen |-> seen]
             rest == PreorderOfMembers(Tail(members), first.seen)
         IN [trace |-> first.trace \o rest.trace, seen |-> rest.seen]

\* The last request sent before a position of the log.
LastRequestBefore(j) ==
    log[CHOOSE g \in 1..(j - 1) :
            /\ log[g].op = "GET"
            /\ \A h \in (g + 1)..(j - 1) : log[h].op # "GET"]

\* The identifier a frame was called for.
CalledFor(frame) ==
    IF frame.fn = "crawl_collection" THEN frame.collection_id ELSE frame.resource_id

\* C19: crawl_collection is depth-first preorder in source order. Every
\* passage write follows the document request of its own resource with no
\* other request in between; when the run ends with no failure, the requests
\* and collection writes of the log are the preorder of the source graph,
\* members in the order listed; and at every step the calls below the
\* running one stand still, the member loop moves to the next member of the
\* list as listed, and the call it makes is for the member it leaves: so
\* all that member i causes happens before member i+1 is looked at.
C19_PreorderInSourceOrder ==
    /\ [](/\ \A j \in Writes("document") :
                /\ LastRequestBefore(j).endpoint = "document"
                /\ LastRequestBefore(j).id = log[j].body.resource_id
          /\ (status = "done" /\ NoFailure) =>
                RequestsAndCollectionWrites = Preorder(TARGET_COLLECTION, {}).trace)
    /\ [][/\ \A d \in 1..(Len(stack) - 1) :
                d <= Len(stack') => stack'[d] = stack[d]
          /\ (Running("crawl_collection", "members") /\ Top.i <= Len(Top.data.member)) =>
                /\ stack'[Len(stack)] = [Top EXCEPT !.i = Top.i + 1]
                /\ Len(stack') > Len(stack) =>
                      CalledFor(stack'[Len(stack')]) = Top.data.member[Top.i].id]_vars

\* The run has ended with no failure on a root that lists a sub-collection
\* with a sub-collection of its own, then a resource with passages.
C19_Witness ==
    /\ status = "done"
    /\ NoFailure
    /\ api[TARGET_COLLECTION].member = << [id |-> "c1", type |-> "Collection"],
                                         [id |-> "x1", type |-> "Resource"] >>
    /\ "c2" \in DOMAIN collection_index
    /\ Writes("document") # {}

(***************************************************************************)
(* The end of the walk.                                                    *)
(***************************************************************************)
\* The calls of crawl_collection on the stack that have got past the test
\* of the visited set.
OpenCrawls ==
    { f \in DOMAIN stack :
        stack[f].fn = "crawl_collection" /\ stack[f].pc # "enter" }

\* The ancestor walk of a call of index_resource_passages has stood on no
\* entry twice.
NoEntryWalkedTwice(frame) ==
    Cardinality({frame.walk.passage_id}
                  \cup { frame.walk.ancestors[i].id : i \in DOMAIN frame.walk.ancestors })
        = Len(frame.walk.ancestors) + 1

\* C20: started with a fresh visited set on a finite source graph,
\* crawl_collection terminates, cycles of member links included, with at
\* most one /collection request per collection id. The run ends if and only
\* if its recursion and each of its loops end: the open calls are for
\* distinct nodes (so the recursion is no deeper than the graph has nodes),
\* a member loop stands inside its list or just past it, and an ancestor
\* walk, whose turn depends on the current entry alone, never comes back to
\* an entry.
C20_CrawlTerminates ==
    /\ \A e \in { log[j] : j \in DOMAIN log } :
         (e.op = "GET" /\ e.endpoint = "collection") =>
            Cardinality(CollectionFetches(e.id)) <= 1
    /\ \A f, g \in OpenCrawls :
         stack[f].collection_id = stack[g].collection_id => f = g
    /\ \A f \in OpenCrawls :
         stack[f].pc = "members" => stack[f].i <= Len(stack[f].data.member) + 1
    /\ \A f \in DOMAIN stack :
         (stack[f].fn = "index_resource_passages" /\ stack[f].pc = "ancestors") =>
            NoEntryWalkedTwice(stack[f])

(***************************************************************************)
(* What the visited set keeps.                                             *)
(***************************************************************************)
\* The first visit of the node ended without a record: the description
\* fetched was not a Collection, or the write of its record failed.
FirstVisitRejected(id) ==
    \/ id \in DOMAIN api /\ api[id].type # "Collection"
    \/ \E j \in CollectionWrites(id) : ~log[j].ok

\* C21: an id is in the visited set from its fetch on, whatever the fetch
\* gives, and is never removed; a node whose description was not a
\* Collection, or whose record write failed, has been fetched once, has no
\* other write and no record in the collection index; and a call that
\* reaches an id of the visited set again returns at once, with no request
\* and no write.
C21_VisitedIsNeverForgotten ==
    /\ [](/\ \A j \in DOMAIN log :
                (log[j].op = "GET" /\ log[j].endpoint = "collection") =>
                    log[j].id \in visited
          /\ \A id \in visited :
                FirstVisitRejected(id) =>
                    /\ Cardinality(CollectionFetches(id)) = 1
                    /\ Cardinality(CollectionWrites(id)) =
                          IF api[id].type # "Collection" THEN 0 ELSE 1
                    /\ id \notin DOMAIN collection_index)
    /\ [][/\ visited \subseteq visited'
          /\ (Running("crawl_collection", "enter") /\ Top.collection_id \in visited) =>
                /\ stack' = Pop(stack)
                /\ log' = log
                /\ collection_index' = collection_index]_vars

\* The run has ended; the write of c1's record failed when R listed it, and
\* c2, walked after it, lists c1 again.
C21_Witness ==
    /\ status = "done"
    /\ \E j \in CollectionWrites("c1") : ~log[j].ok
    /\ api[TARGET_COLLECTION].member = << [id |-> "c1", type |-> "Collection"],
                                         [id |-> "c2", type |-> "Collection"] >>
    /\ "c2" \in DOMAIN collection_index
    /\ api["c2"].member = << [id |-> "c1", type |-> "Collection"] >>
    /\ "c1" \notin DOMAIN collection_index

(***************************************************************************)
(* Resources listed more than once.                                        *)
(***************************************************************************)
\* The collections that list a resource, once for each listing, in the
\* order of the depth-first preorder of the source graph from a node; seen
\* is the set of nodes met before, and the result carries the set after.
RECURSIVE Listers(_, _, _), ListersAmong(_, _, _, _)
Listers(id, seen, resource_id) ==
    IF id \in seen \/ api[id].type # "Collection"
    THEN [listers |-> <<>>, seen |-> seen \cup {id}]
    ELSE ListersAmong(id, api[id].member, seen \cup {id}, resource_id)

ListersAmong(id, members, seen, resource_id) ==
    IF members = <<>> THEN [listers |-> <<>>, seen |-> seen]
    ELSE LET member == Head(members)
             first == IF IsSubCollectionLink(member)
                      THEN Listers(member.id, seen, resource_id)
                      ELSE IF IsResourceLink(member) /\ member.id = resource_id
                      THEN [listers |-> <<id>>, seen |-> seen]
                      ELSE [listers |-> <<>>, seen |-> seen]
             rest == ListersAmong(id, Tail(members), first.seen, resource_id)
         IN [listers |-> first.listers \o rest.listers, seen |-> rest.seen]

\* The positions of the log where the document of a resource was requested:
\* one for each extraction of its passages that got that far.
Extractions(resource_id) ==
    { g \in DOMAIN log : /\ log[g].op = "GET"
                         /\ log[g].endpoint = "document"
                         /\ log[g].id = resource_id }

\* The document ids written by the extraction that began at a position.
WrittenBy(g) ==
    { log[j].id : j \in { w \in Writes("document") :
                            /\ w > g
                            /\ \A h \in (g + 1)..w : log[h].op # "GET" } }

\* C22: the visited set guards collection ids only. The document index
\* holds, under each id, the body of the last write to that id; and when the
\* run ends with no failure, a resource listed k times by the collections
\* walked has been passage-extracted k times, each extraction has written
\* the same document ids, and every stored passage record of the resource
\* carries the path and path_ids of the collection that listed it last in
\* traversal order.
C22_ResourceExtractedPerListing ==
    /\ document_index = StoreOf("document")
    /\ (status = "done" /\ NoFailure) =>
          LET listers == Listers(TARGET_COLLECTION, {}, "x1").listers
          IN /\ Cardinality(Extractions("x1")) = Len(listers)
             /\ \A g, h \in Extractions("x1") : WrittenBy(g) = WrittenBy(h)
             /\ \A key \in DOMAIN document_index :
                   LET last == listers[Len(listers)]
                   IN /\ document_index[key].resource_id = "x1"
                      /\ document_index[key].path = collection_index[last].path
                      /\ document_index[key].path_ids = collection_index[last].path_ids

\* The run has ended with no failure; R lists resource x1 and then c1, which
\* lists x1 again: the stored passage carries the path ids of c1.
C22_Witness ==
    /\ status = "done"
    /\ NoFailure
    /\ api[TARGET_COLLECTION].member = << [id |-> "x1", type |-> "Resource"],
                                         [id |-> "c1", type |-> "Collection"] >>
    /\ "c1" \in DOMAIN api
    /\ "x1::p1" \in DOMAIN document_index
    /\ api["c1"].member = << [id |-> "x1", type |-> "Resource"] >>
    /\ Cardinality(Extractions("x1")) = 2
    /\ document_index["x1::p1"].path_ids = <<"R", "c1">>

====
